---- MODULE Spec2Model ----
(***************************************************************************)
(* A model of the toych layer / optimizer code.                            *)
(*                                                                         *)
(*   Spec       a Dense layer (src/layers.py) driven through its public    *)
(*              calls: setup, forward, backward, and grad / zero_grad /    *)
(*              need_update of its weights Parameter.                      *)
(*   SpecFanOut the same layer, with an observer that tapes the forward    *)
(*              invocations of a pass.                                     *)
(*   SpecTrain  Model.fit (src/model/__init__.py) driving an SGD optimizer *)
(*              (src/toych/optim.py) over scalar Params, statement by      *)
(*              statement, inside the not_training scopes the code opens.  *)
(*   SpecOp     partial application of the Operation F of                  *)
(*              src/tests/test_func.py.                                    *)
(*   SpecRBF    an RBF layer (src/layers.py) driven through setup,         *)
(*              forward, backward and reads of centers.grad.               *)
(*   SpecLayers a Dense or an RBF layer, for what the Layer wrappers do    *)
(*              for both.                                                  *)
(*   SpecAttr   attribute assignments on a Layer (Layer.__setattr__).      *)
(*                                                                         *)
(* numpy arrays are records [kind, shape, data]: shape is the numpy shape  *)
(* and data the entries in row-major order.  The same record form carries  *)
(* Python's None, a Python int, a missing attribute and a raised           *)
(* exception, so that every value of the model is comparable.              *)
(*                                                                         *)
(* The layer is constructed with activation=None and dropout=0, so the     *)
(* `if self.activation` / `if self.dropout` branches of the wrappers are   *)
(* not taken (module `functions` is not part of the sources).              *)
(***************************************************************************)
EXTENDS Integers, Sequences, FiniteSets, TLC

\* ------------------------------------------------------------ bounds
MaxBatch == 2        \* rows of a batched input or gradient
MaxBackward == 2     \* backward calls that accumulate, per Parameter
MaxFanOut == 2       \* forward invocations awaiting their backward

Sizes == {1, 2}            \* `size` given to Dense(...)
InputDims == {3}             \* input_dim given to Dense(...) or setup(...)
InputKinds == {0}          \* which sample input is fed
ErrorKinds == {1}          \* which sample output-gradient is fed
Seeds == {1}               \* outcomes of the random initialisation

\* ------------------------------------------------------------ values
Arr(shape, data) == [kind |-> "ndarray", shape |-> shape, data |-> data]
None == [kind |-> "None", shape |-> <<>>, data |-> <<>>]
NoAttr == [kind |-> "unset", shape |-> <<>>, data |-> <<>>]
PyInt(v) == [kind |-> "int", shape |-> <<>>, data |-> <<v>>]
Raised(exc) == [kind |-> exc, shape |-> <<>>, data |-> <<>>]
Exceptions == {"ValueError", "AttributeError", "TypeError", "AssertionError"}
IsRaised(t) == t.kind \in Exceptions
IsArr(t) == t.kind = "ndarray"

Max(a, b) == IF a >= b THEN a ELSE b

\* numpy views every operand of rank <= 2 as a matrix when it broadcasts:
\* missing leading dimensions count as 1.
Pad2(s) == IF Len(s) = 0 THEN <<1, 1>> ELSE IF Len(s) = 1 THEN <<1, s[1]>> ELSE s

\* a[i, j] under broadcasting: a dimension of length 1 is repeated.
Elem(a, i, j) ==
    LET p == Pad2(a.shape)
        ii == IF p[1] = 1 THEN 1 ELSE i
        jj == IF p[2] = 1 THEN 1 ELSE j
    IN a.data[(ii - 1) * p[2] + jj]

Compatible(sa, sb) ==
    LET p == Pad2(sa)
        q == Pad2(sb)
    IN /\ (p[1] = q[1] \/ p[1] = 1 \/ q[1] = 1)
       /\ (p[2] = q[2] \/ p[2] = 1 \/ q[2] = 1)

BroadcastShape(sa, sb) ==
    LET p == Pad2(sa)
        q == Pad2(sb)
        full == <<Max(p[1], q[1]), Max(p[2], q[2])>>
        rank == Max(Len(sa), Len(sb))
    IN SubSeq(full, 3 - rank, 2)

\* a + b
np_add(a, b) ==
    IF ~Compatible(a.shape, b.shape) THEN Raised("ValueError")
    ELSE LET s == BroadcastShape(a.shape, b.shape)
             p == Pad2(s)
         IN Arr(s, [k \in 1..(p[1] * p[2]) |->
                      Elem(a, ((k - 1) \div p[2]) + 1, ((k - 1) % p[2]) + 1)
                    + Elem(b, ((k - 1) \div p[2]) + 1, ((k - 1) % p[2]) + 1)])

\* a += b on an ndarray a: the result is written into a, so the broadcast
\* shape has to be a's own shape.
np_iadd(a, b) ==
    IF ~Compatible(a.shape, b.shape) THEN Raised("ValueError")
    ELSE IF BroadcastShape(a.shape, b.shape) # a.shape THEN Raised("ValueError")
    ELSE np_add(a, b)

RECURSIVE DotFrom(_, _, _, _, _)
DotFrom(a, b, i, j, m) ==
    IF m = 0 THEN 0
    ELSE a.data[(i - 1) * a.shape[2] + m] * b.data[(m - 1) * b.shape[2] + j]
         + DotFrom(a, b, i, j, m - 1)

\* a @ b: a 1-D left operand is a row, a 1-D right operand a column, and the
\* dimension that was added is removed from the result.
np_matmul(a, b) ==
    LET a2 == IF Len(a.shape) = 1 THEN Arr(<<1, a.shape[1]>>, a.data) ELSE a
        b2 == IF Len(b.shape) = 1 THEN Arr(<<b.shape[1], 1>>, b.data) ELSE b
        r == a2.shape[1]
        c == b2.shape[2]
        s == (IF Len(a.shape) = 1 THEN <<>> ELSE <<r>>)
             \o (IF Len(b.shape) = 1 THEN <<>> ELSE <<c>>)
    IN IF a2.shape[2] # b2.shape[1] THEN Raised("ValueError")
       ELSE Arr(s, [k \in 1..(r * c) |->
                DotFrom(a2, b2, ((k - 1) \div c) + 1, ((k - 1) % c) + 1, a2.shape[2])])

\* a.T of a matrix
np_T(a) ==
    LET r == a.shape[1]
        c == a.shape[2]
    IN Arr(<<c, r>>, [k \in 1..(r * c) |->
            a.data[((k - 1) % r) * c + ((k - 1) \div r) + 1]])

RECURSIVE ColSumFrom(_, _, _)
ColSumFrom(a, j, i) ==
    IF i = 0 THEN 0 ELSE Elem(a, i, j) + ColSumFrom(a, j, i - 1)

\* np.sum(a, axis=0): the first dimension is summed away.
np_sum0(a) ==
    IF Len(a.shape) = 1
    THEN Arr(<<>>, <<ColSumFrom(Arr(<<a.shape[1], 1>>, a.data), 1, a.shape[1])>>)
    ELSE Arr(<<a.shape[2]>>, [j \in 1..a.shape[2] |-> ColSumFrom(a, j, a.shape[1])])

\* np.insert(a, 0, v, axis=0): v becomes the new first entry (row) of a.
np_insert0(a, v) ==
    LET rowlen == IF Len(a.shape) = 1 THEN 1 ELSE a.shape[2]
    IN IF Len(v.data) # rowlen /\ Len(v.data) # 1 THEN Raised("ValueError")
       ELSE Arr(<<a.shape[1] + 1>> \o Tail(a.shape),
                [j \in 1..rowlen |-> Elem(v, 1, j)] \o a.data)

\* a[0] and a[1:] of a matrix
Row0(a) == Arr(<<a.shape[2]>>, SubSeq(a.data, 1, a.shape[2]))
RowsFrom1(a) ==
    Arr(<<a.shape[1] - 1, a.shape[2]>>, SubSeq(a.data, a.shape[2] + 1, Len(a.data)))

\* np.reshape(a, [n, -1])
np_reshape(a, n) == Arr(<<n, Len(a.data) \div n>>, a.data)

\* ------------------------------------------------------------ Parameter
\* A Parameter is an ndarray with two lazily created attributes, _grad and
\* _dirty ("unset" while the attribute does not exist).
Parameter(value) == [value |-> value, grad |-> NoAttr, dirty |-> "unset"]
NoParameter == [value |-> NoAttr, grad |-> NoAttr, dirty |-> "unset"]

\* Parameter(size=shape): the entries are random; each seed is one outcome.
RandomParameter(shape, seed) ==
    Parameter(Arr(shape, [k \in 1..(shape[1] * shape[2]) |-> ((k * (seed + 1)) % 5) - 2]))

\* The Parameter after `p.grad` was read; the value read is its grad field.
grad_get(p) ==
    IF p.grad.kind = "unset" THEN [p EXCEPT !.grad = PyInt(0), !.dirty = "False"] ELSE p

\* p.grad = value
grad_set(p, value) == [p EXCEPT !.grad = value, !.dirty = "True"]

\* Mutant of zero_grad: the gradient is reset and the flag forgotten.
zero_grad_keeps_flag(p) == [p EXCEPT !.grad = PyInt(0)]

zero_grad(p) == [p EXCEPT !.grad = PyInt(0), !.dirty = "False"]

\* p.need_update: the value of _dirty, an AttributeError while it is missing.
need_update(p) ==
    IF p.dirty = "unset" THEN Raised("AttributeError") ELSE [None EXCEPT !.kind = p.dirty]

\* ------------------------------------------------------------ Dense
\* Dense.forward(input) on the reshaped input.
Dense_forward(w, inp, bias) ==
    IF w.value.kind = "unset" THEN Raised("AttributeError")
    ELSE IF bias
    THEN LET prod == np_matmul(inp, RowsFrom1(w.value))
         IN IF IsRaised(prod) THEN prod ELSE np_add(prod, Row0(w.value))
    ELSE np_matmul(inp, w.value)

\* The local gradient of Dense.backward (its variable `grad`).
Dense_grad(inp, error, bias) ==
    LET grad == np_matmul(np_T(inp), error)
    IN IF IsRaised(grad) THEN grad
       ELSE IF bias THEN np_insert0(grad, np_sum0(error))
       ELSE grad

\* Mutant of grad_iadd: the new local gradient replaces what was there.
grad_overwrite(grad_value, grad) == grad

\* grad_value += grad, where grad_value was read from weights.grad: a Python
\* int has no in-place add and yields a new array, an ndarray adds in place.
grad_iadd(grad_value, grad) ==
    IF grad_value.kind = "int" THEN np_add(Arr(<<>>, grad_value.data), grad)
    ELSE np_iadd(grad_value, grad)

\* Dense.backward(error, pass_error): the weights afterwards and what is
\* returned (or raised).
Dense_backward(w, inp, error, bias, pass_error) ==
    LET grad == Dense_grad(inp, error, bias)
        read == grad_get(w)
        sum == grad_iadd(read.grad, grad)
    IN IF IsRaised(grad) THEN [weights |-> w, acc |-> FALSE, ret |-> grad]
       ELSE IF w.value.kind = "unset"
       THEN [weights |-> w, acc |-> FALSE, ret |-> Raised("AttributeError")]
       ELSE IF IsRaised(sum) THEN [weights |-> read, acc |-> FALSE, ret |-> sum]
       ELSE [weights |-> grad_set(read, sum), acc |-> TRUE,
             ret |-> IF pass_error
                     THEN np_matmul(error, np_T(RowsFrom1(w.value)))
                     ELSE None]

\* Layer._wrapped_forward(input): the caches afterwards and what is returned
\* (or raised).
wrapped_forward(w, inp0, out0, x, bias) ==
    LET batch == Len(x.shape) > 1
        n == IF batch THEN x.shape[1] ELSE 1
        inp == np_reshape(x, n)
        out == Dense_forward(w, inp, bias)
    IN IF IsRaised(out) THEN [input |-> inp0, output |-> out0, ret |-> out]
       ELSE [input |-> inp, output |-> out, ret |-> IF batch THEN out ELSE Row0(out)]

\* Mutant of wrapped_backward: no test for a missing output, so that
\* Dense.backward runs on the cached None.
wrapped_backward_unguarded(w, inp, out, error, bias, pass_error) ==
    LET done == Dense_backward(w, inp, error, bias, pass_error)
    IN IF out.kind = "None"
       THEN [weights |-> w, input |-> inp, output |-> out, acc |-> FALSE,
             ret |-> Raised("AttributeError")]
       ELSE IF IsRaised(done.ret)
       THEN [weights |-> done.weights, input |-> inp, output |-> out,
             acc |-> done.acc, ret |-> done.ret]
       ELSE [weights |-> done.weights, input |-> None, output |-> None,
             acc |-> done.acc, ret |-> done.ret]

\* A wrapper that clears the caches only when an error is passed on.
wrapped_backward_keeps_caches(w, inp, out, error, bias, pass_error) ==
    LET done == Dense_backward(w, inp, error, bias, pass_error)
    IN IF out.kind = "None"
       THEN [weights |-> w, input |-> inp, output |-> out, acc |-> FALSE, ret |-> None]
       ELSE IF IsRaised(done.ret) \/ ~pass_error
       THEN [weights |-> done.weights, input |-> inp, output |-> out,
             acc |-> done.acc, ret |-> done.ret]
       ELSE [weights |-> done.weights, input |-> None, output |-> None,
             acc |-> done.acc, ret |-> done.ret]

\* Layer._wrapped_backward(error, pass_error=...): the weights and caches
\* afterwards, whether weights.grad was added to, and what is returned (or
\* raised).
wrapped_backward(w, inp, out, error, bias, pass_error) ==
    LET done == Dense_backward(w, inp, error, bias, pass_error)
    IN IF out.kind = "None"
       THEN [weights |-> w, input |-> inp, output |-> out, acc |-> FALSE, ret |-> None]
       ELSE IF IsRaised(done.ret)
       THEN [weights |-> done.weights, input |-> inp, output |-> out,
             acc |-> done.acc, ret |-> done.ret]
       ELSE [weights |-> done.weights, input |-> None, output |-> None,
             acc |-> done.acc, ret |-> done.ret]

\* ------------------------------------------------------------ state
VARIABLES
    size,        \* Layer.size
    with_bias,   \* Dense.with_bias
    input_dim,   \* Layer.input_dim, 0 for None
    built,       \* Layer._built
    input,       \* Layer.input: the cached (reshaped) input or None
    output,      \* Layer.output: the cached output or None
    weights,     \* Dense.weights: a Parameter, NoParameter while not set up
    parameters,  \* Layer.parameters: the attribute names it holds
    call,        \* the last call made on the layer and what it returned
    fwd,         \* shapes of the argument and result of the last forward
    naccum,      \* observer: backward calls that accumulated into weights.grad
    sumLocal,    \* observer: entrywise sum of their local gradients
    proper,      \* observer: each of them was given a gradient of the shape
                 \*           the forward before it returned
    track,       \* observer: whether forward invocations are being taped
    tape,        \* observer: inputs of the forward invocations not yet
                 \*           matched by a backward call
    nowed,       \* observer: taped invocations matched by a backward call
    owed,        \* observer: entrywise sum of the local gradients of the
                 \*           invocations that were matched by a backward call
    regular      \* observer: every taped invocation was batched and matched
                 \*           by a gradient with as many rows

VARIABLES
    pvalue,      \* Param -> its value (a scalar)
    pgrad,       \* Param -> its gradient
    has_grad,    \* Param -> Param.has_grad
    training,    \* Param.training, the process-wide flag
    scopes,      \* the flag values saved by the open not_training scopes
    optim,       \* the optimizer's attributes and what fit was given
    old_delta,   \* SGD.old_delta: Param -> [set, delta]
    pc,          \* where Model.fit is
    graph,       \* the Params recorded by the last evaluation of the model
    ocall,       \* the running Optimizer.__call__
    epoch,       \* fit's epoch
    nbatch,      \* batches done in the epoch
    ncallback,   \* callbacks done in the epoch
    tstep        \* the statement executed last

trainVars == <<pvalue, pgrad, has_grad, training, scopes, optim, old_delta,
               pc, graph, ocall, epoch, nbatch, ncallback, tstep>>

VARIABLES
    ops,         \* the Operation objects made so far
    made,        \* for each, the binding stages that made it
    result       \* the last application: its stages, tensor and value

opVars == <<ops, made, result>>

NoOps == ops = <<>> /\ made = <<>> /\ result = <<>>

VARIABLES
    cls,         \* the class of the layer: "Dense", "RBF", or "none"
    centers,     \* RBF.centers: a Parameter, NoParameter while not set up
    rbf,         \* RBF's constructor arguments
    attrs        \* the instance attributes assigned on a bare Layer

rbfVars == <<cls, centers, rbf>>

layerVars == <<size, with_bias, input_dim, built, input, output, weights, parameters>>
observerVars == <<call, fwd, naccum, sumLocal, proper, track, tape, nowed, owed, regular>>
vars == <<layerVars, observerVars, trainVars, opVars, rbfVars, attrs>>

Call(op, arg, pass_error, ret) ==
    [op |-> op, arg |-> arg, pass_error |-> pass_error,
     had_output |-> output.kind # "None", ret |-> ret,
     repeat |-> op = "zero_grad" /\ call.op = op]

\* Layer.__setattr__ on the names held by Layer.parameters: a Parameter
\* value registers the name, another value removes it.
registered(names, name, is_parameter) ==
    IF is_parameter THEN names \cup {name} ELSE names \ {name}

\* ------------------------------------------------------------ inputs
InputSample(kind, shape) ==
    LET p == Pad2(shape)
    IN Arr(shape, [k \in 1..(p[1] * p[2]) |-> IF kind = 0 THEN k ELSE 2 - k])

ErrorSample(kind, shape) ==
    LET p == Pad2(shape)
    IN Arr(shape, [k \in 1..(p[1] * p[2]) |->
                     IF kind = 0 THEN 1 ELSE IF k % 2 = 0 THEN k ELSE 0 - k])

Shapes(width) == {<<width>>} \cup {<<n, width>> : n \in 1..MaxBatch}

Inputs == {InputSample(kd, s) : kd \in InputKinds, s \in UNION {Shapes(d) : d \in InputDims}}
Errors == {ErrorSample(kd, s) : kd \in ErrorKinds, s \in Shapes(size)}

\* Entrywise sum of two flat sequences; <<>> is the empty sum.
SeqAdd(a, b) ==
    IF a = <<>> THEN b ELSE IF b = <<>> THEN a
    ELSE [k \in 1..Len(a) |-> a[k] + b[k]]

\* What the chain rule asks of a Dense layer, row-major: entry (i, j) is the
\* sum over the batch of x[b, i] * g[b, j], with a constant-1 input (i = 0)
\* in front for the bias row.
RECURSIVE BatchSum(_, _, _, _, _)
BatchSum(x, g, i, j, b) ==
    IF b = 0 THEN 0
    ELSE (IF i = 0 THEN 1 ELSE x.data[(b - 1) * x.shape[2] + i])
           * g.data[(b - 1) * g.shape[2] + j]
         + BatchSum(x, g, i, j, b - 1)

Batched(t) == IF Len(t.shape) = 1 THEN Arr(<<1, t.shape[1]>>, t.data) ELSE t

OuterGrad(x, g, bias) ==
    LET c == g.shape[2]
        first == IF bias THEN 0 ELSE 1
        rows == x.shape[2] + 1 - first
    IN [k \in 1..(rows * c) |->
          BatchSum(x, g, first + ((k - 1) \div c), ((k - 1) % c) + 1, x.shape[1])]

\* ------------------------------------------------------------ actions
\* Dense.setup(input_dim) with a number: Layer.setup records it, Dense.setup
\* assigns self.weights, which Layer.__setattr__ registers.  A layer is set
\* up once: by its constructor, or by its owner before the first forward.
Setup(d, seed) ==
    /\ cls = "Dense"
    /\ UNCHANGED <<trainVars, opVars, rbfVars, attrs>>
    /\ weights.value.kind = "unset"
    /\ input_dim' = d
    /\ weights' = RandomParameter(<<d + (IF with_bias THEN 1 ELSE 0), size>>, seed)
    /\ parameters' = parameters \cup {"weights"}
    /\ call' = Call("setup", None, FALSE, None)
    /\ naccum' = 0
    /\ sumLocal' = <<>>
    /\ proper' = TRUE
    /\ UNCHANGED <<size, with_bias, built, input, output, fwd, track, tape, nowed, owed, regular>>

\* Dense.setup(None): Layer.setup asserts that input_dim is already known,
\* then Dense.setup adds None to with_bias.
SetupNone ==
    /\ cls = "Dense"
    /\ UNCHANGED <<trainVars, opVars, rbfVars, attrs>>
    /\ call' = Call("setup", None, FALSE,
                    IF input_dim = 0 THEN Raised("AssertionError") ELSE Raised("TypeError"))
    /\ UNCHANGED <<layerVars, fwd, naccum, sumLocal, proper, track, tape, nowed, owed, regular>>

\* layer.forward(x)
Forward(x) ==
    LET done == wrapped_forward(weights, input, output, x, with_bias)
        batch == Len(x.shape) > 1
    IN /\ cls = "Dense"
       /\ UNCHANGED <<trainVars, opVars, rbfVars, attrs>>
       /\ track => Len(tape) + nowed < MaxFanOut
       /\ input' = done.input
       /\ output' = done.output
       /\ call' = Call("forward", None, FALSE, done.ret)
       /\ IF IsRaised(done.ret)
          THEN UNCHANGED <<fwd, tape, regular>>
          ELSE /\ fwd' = [in |-> x.shape, out |-> done.ret.shape]
               /\ tape' = IF track THEN Append(tape, done.input) ELSE tape
               /\ regular' = (regular /\ (track => batch))
       /\ parameters' = IF IsRaised(done.ret) THEN parameters
                         ELSE registered(registered(parameters, "input", FALSE),
                                         "output", TRUE)
       /\ UNCHANGED <<size, with_bias, input_dim, built, weights,
                      naccum, sumLocal, proper, track, nowed, owed>>

\* layer.backward(error, pass_error=pass_error)
Backward(error, pass_error) ==
    LET done == wrapped_backward(weights, input, output, error, with_bias, pass_error)
        matched == track /\ tape # <<>>
        fits == /\ Len(error.shape) = 2
                /\ error.shape[1] = tape[Len(tape)].shape[1]
    IN /\ cls = "Dense"
       /\ UNCHANGED <<trainVars, opVars, rbfVars, attrs>>
       /\ output.kind # "None" => naccum < MaxBackward
       /\ weights' = done.weights
       /\ input' = done.input
       /\ output' = done.output
       /\ call' = Call("backward", error, pass_error, done.ret)
       /\ naccum' = IF done.acc THEN naccum + 1 ELSE naccum
       /\ sumLocal' = IF done.acc /\ proper /\ error.shape = fwd.out
                      THEN SeqAdd(sumLocal, Dense_grad(input, error, with_bias).data)
                      ELSE sumLocal
       /\ proper' = (proper /\ (done.acc => error.shape = fwd.out))
       /\ tape' = IF matched THEN SubSeq(tape, 1, Len(tape) - 1) ELSE tape
       /\ owed' = IF matched /\ regular /\ fits
                  THEN SeqAdd(owed, OuterGrad(tape[Len(tape)], error, with_bias))
                  ELSE owed
       /\ nowed' = IF matched THEN nowed + 1 ELSE nowed
       /\ regular' = (regular /\ (matched => fits))
       /\ parameters' = IF output.kind = "None" \/ IsRaised(done.ret) THEN parameters
                         ELSE registered(registered(parameters, "input", FALSE),
                                         "output", FALSE)
       /\ UNCHANGED <<size, with_bias, input_dim, built, fwd, track>>

\* reading layer.weights.grad
ReadGrad ==
    /\ cls = "Dense"
    /\ UNCHANGED <<trainVars, opVars, rbfVars, attrs>>
    /\ weights.value.kind # "unset"
    /\ weights' = grad_get(weights)
    /\ call' = Call("grad", None, FALSE, grad_get(weights).grad)
    /\ UNCHANGED <<size, with_bias, input_dim, built, input, output, parameters,
                   fwd, naccum, sumLocal, proper, track, tape, nowed, owed, regular>>

\* layer.weights.zero_grad()
ZeroGrad ==
    /\ cls = "Dense"
    /\ UNCHANGED <<trainVars, opVars, rbfVars, attrs>>
    /\ weights.value.kind # "unset"
    /\ weights' = zero_grad(weights)
    /\ call' = Call("zero_grad", None, FALSE, None)
    /\ naccum' = 0
    /\ sumLocal' = <<>>
    /\ proper' = TRUE
    /\ nowed' = 0
    /\ owed' = <<>>
    /\ regular' = (tape = <<>>)
    /\ UNCHANGED <<size, with_bias, input_dim, built, input, output, parameters,
                   fwd, track, tape>>

\* reading layer.weights.need_update
ReadNeedUpdate ==
    /\ cls = "Dense"
    /\ UNCHANGED <<trainVars, opVars, rbfVars, attrs>>
    /\ weights.value.kind # "unset"
    /\ call' = Call("need_update", None, FALSE, need_update(weights))
    /\ UNCHANGED <<layerVars, fwd, naccum, sumLocal, proper, track, tape, nowed, owed, regular>>

\* The layer is a Dense layer.
DenseOnly == cls = "Dense" /\ centers = NoParameter /\ rbf = <<>> /\ attrs = <<>>

\* No training loop runs beside the layer.
NoTraining ==
    /\ pvalue = <<>>
    /\ pgrad = <<>>
    /\ has_grad = <<>>
    /\ training = TRUE
    /\ scopes = <<>>
    /\ optim = <<>>
    /\ old_delta = <<>>
    /\ pc = "none"
    /\ graph = {}
    /\ ocall = <<>>
    /\ epoch = 0
    /\ nbatch = 0
    /\ ncallback = 0
    /\ tstep = "none"

\* Dense(size, with_bias, input_dim=...): Layer.__init__ clears the caches
\* and the flags, and calls setup when input_dim is given.
Constructed(tr) ==
    /\ size \in Sizes
    /\ with_bias \in BOOLEAN
    /\ input_dim \in {0} \cup InputDims
    /\ built = FALSE
    /\ input = None
    /\ output = None
    /\ weights \in IF input_dim = 0 THEN {NoParameter}
                   ELSE {RandomParameter(<<input_dim + (IF with_bias THEN 1 ELSE 0), size>>, sd)
                           : sd \in Seeds}
    /\ parameters = IF input_dim = 0 THEN {} ELSE {"weights"}
    /\ call = [op |-> "init", arg |-> None, pass_error |-> FALSE,
               had_output |-> FALSE, ret |-> None, repeat |-> FALSE]
    /\ fwd = [in |-> <<>>, out |-> <<>>]
    /\ naccum = 0
    /\ sumLocal = <<>>
    /\ proper = TRUE
    /\ regular = TRUE
    /\ track = tr
    /\ tape = <<>>
    /\ nowed = 0
    /\ owed = <<>>

Init == Constructed(FALSE) /\ NoTraining /\ NoOps /\ DenseOnly

Next ==
    \/ \E d \in InputDims, sd \in Seeds : Setup(d, sd)
    \/ SetupNone
    \/ \E x \in Inputs : Forward(x)
    \/ \E e \in Errors, pe \in BOOLEAN : Backward(e, pe)
    \/ ReadGrad
    \/ ZeroGrad
    \/ ReadNeedUpdate

Spec == Init /\ [][Next]_vars

\* The same layer with its forward invocations taped by the observer.
InitFanOut == Constructed(TRUE) /\ NoTraining /\ NoOps /\ DenseOnly
SpecFanOut == InitFanOut /\ [][Next]_vars

\* ------------------------------------------------ optimizer and fit
\* The Params of the trained model are scalars; the rates are integers so
\* that every update stays an integer.
MaxEpochs == 1
MaxBatches == 2
MaxCallbacks == 1

ParamIds == {"w", "b"}
ParamValues == {2}
GraphChoices == {{"w"}, {"w", "b"}}
GradVals == {1, -3}
Regs == {"none", "l1", "l2"}
GradLims == {0, 2}
Moms == {0, 1}
Lrs == {1}
Lambs == {1}

Abs(a) == IF a < 0 THEN -a ELSE a
np_sign(a) == IF a < 0 THEN -1 ELSE IF a > 0 THEN 1 ELSE 0

\* Param.not_training(): entering saves the flag and turns it off.
EnterScope(tr, sc) == [training |-> FALSE, scopes |-> Append(sc, tr)]

\* Leaving the scope puts back the value saved by the matching entry.
ExitScope(tr, sc) ==
    [training |-> sc[Len(sc)], scopes |-> SubSeq(sc, 1, Len(sc) - 1)]

\* An exception raised in the optimizer leaves its own with-block only.
Unwind_inner_only(caller, tr, sc) == ExitScope(tr, sc)

\* An exception raised in the optimizer leaves every with-block it crosses:
\* the optimizer's own, and fit's when a callback made the call.
Unwind(caller, tr, sc) ==
    LET inner == ExitScope(tr, sc)
    IN IF caller = "callback"
       THEN ExitScope(inner.training, inner.scopes)
       ELSE inner

\* An evaluation of the model records the Params it used only while the
\* flag is on.
Recorded(tr, used) == IF tr THEN used ELSE {}

\* Tensor.backward adds to the gradient of each recorded Param.
Accumulated(g, p, used, d) ==
    IF p \in used THEN g[p] + (IF p = "w" THEN d ELSE -d) ELSE g[p]

\* Param.del_grad
del_grad(p) == [grad |-> 0, has_grad |-> FALSE]

\* Optimizer.shrink_grad on a scalar gradient: scale = grad_lim / |grad|,
\* applied when below 1; a zero gradient gives an infinite scale.
shrink_grad(grad, grad_lim) ==
    IF grad = 0 THEN grad
    ELSE IF grad_lim < Abs(grad) THEN np_sign(grad) * grad_lim
    ELSE grad

\* SGD.update
SGD_update(value, grad, old, mom, lr) ==
    LET delta == IF old.set THEN mom * old.delta - (1 - mom) * grad
                 ELSE -grad
    IN [value |-> value + lr * delta,
        old_delta |-> [set |-> TRUE, delta |-> delta]]

\* Optimizer.regularize
regularize(value, reg, lr, lamb) ==
    IF reg = "none" THEN value
    ELSE IF reg = "l1" THEN value - lr * lamb * np_sign(value)
    ELSE value - lr * lamb * value

\* A body of Optimizer.__call__ that regularizes before it updates.
StageAfter_regularize_first(stage, grad_lim) ==
    CASE stage = "assert" ->
             IF grad_lim # 0 THEN "shrink_grad" ELSE "regularize"
      [] stage = "shrink_grad" -> "regularize"
      [] stage = "regularize" -> "update"
      [] stage = "update" -> "del_grad"
      [] stage = "del_grad" -> "assert"

\* The statement that follows `stage` in the loop body of
\* Optimizer.__call__.
StageAfter(stage, grad_lim) ==
    CASE stage = "assert" ->
             IF grad_lim # 0 THEN "shrink_grad" ELSE "update"
      [] stage = "shrink_grad" -> "update"
      [] stage = "update" -> "regularize"
      [] stage = "regularize" -> "del_grad"
      [] stage = "del_grad" -> "assert"

NoCall == [active |-> FALSE, caller |-> "none", queue |-> <<>>,
           stage |-> "none", passed |-> {}, entry |-> <<>>]

\* The Params of a set in the order the caller lists them.
AsList(S) ==
    IF S = {"w", "b"} THEN <<"w", "b">>
    ELSE IF S = {"w"} THEN <<"w">>
    ELSE IF S = {"b"} THEN <<"b">>
    ELSE <<>>

\* No Dense layer is exercised beside the training loop.
NoLayer ==
    /\ size = 0
    /\ with_bias = FALSE
    /\ input_dim = 0
    /\ built = FALSE
    /\ input = None
    /\ output = None
    /\ weights = NoParameter
    /\ parameters = {}
    /\ call = <<>>
    /\ fwd = <<>>
    /\ naccum = 0
    /\ sumLocal = <<>>
    /\ proper = TRUE
    /\ regular = TRUE
    /\ track = FALSE
    /\ tape = <<>>
    /\ nowed = 0
    /\ owed = <<>>
    /\ cls = "none"
    /\ centers = NoParameter
    /\ rbf = <<>>
    /\ attrs = <<>>

\* A model with two fresh Params, an SGD optimizer, and fit's arguments.
InitTrain ==
    /\ pvalue \in [ParamIds -> ParamValues]
    /\ pgrad = [p \in ParamIds |-> 0]
    /\ has_grad = [p \in ParamIds |-> FALSE]
    /\ training = TRUE
    /\ scopes = <<>>
    /\ \E reg \in Regs, lim \in GradLims, mom \in Moms, lr \in Lrs,
          lamb \in Lambs, val \in BOOLEAN, nb \in 1..MaxBatches :
          optim = [reg |-> reg, grad_lim |-> lim, mom |-> mom, lr |-> lr,
                   lamb |-> lamb, val_data |-> val, batches |-> nb]
    /\ old_delta = [p \in ParamIds |-> [set |-> FALSE, delta |-> 0]]
    /\ pc = "forward"
    /\ graph = {}
    /\ ocall = NoCall
    /\ epoch = 0
    /\ nbatch = 0
    /\ ncallback = 0
    /\ tstep = "fit"
    /\ NoLayer
    /\ NoOps

\* y = self(x); e = self.loss_func(y, t)
FitForward ==
    /\ pc = "forward"
    /\ \E used \in GraphChoices : graph' = Recorded(training, used)
    /\ pc' = "backward"
    /\ tstep' = "forward"
    /\ UNCHANGED <<pvalue, pgrad, has_grad, training, scopes, optim,
                   old_delta, ocall, epoch, nbatch, ncallback>>
    /\ UNCHANGED <<layerVars, observerVars, opVars, rbfVars, attrs>>

\* params = e.backward()
FitBackward ==
    /\ pc = "backward"
    /\ \E d \in GradVals :
          pgrad' = [p \in ParamIds |-> Accumulated(pgrad, p, graph, d)]
    /\ has_grad' = [p \in ParamIds |-> has_grad[p] \/ p \in graph]
    /\ pc' = "optimizer"
    /\ tstep' = "backward"
    /\ UNCHANGED <<pvalue, training, scopes, optim, old_delta, graph,
                   ocall, epoch, nbatch, ncallback>>
    /\ UNCHANGED <<layerVars, observerVars, opVars, rbfVars, attrs>>

\* Optimizer.__call__ is entered: `with Param.not_training():`
OptimizerEnter(caller, passed) ==
    LET in == EnterScope(training, scopes)
    IN /\ ~ocall.active
       /\ training' = in.training
       /\ scopes' = in.scopes
       /\ ocall' = [active |-> TRUE, caller |-> caller,
                    queue |-> AsList(passed), stage |-> "assert",
                    passed |-> passed, entry |-> <<>>]
       /\ tstep' = "optimizer"
       /\ UNCHANGED <<pvalue, pgrad, has_grad, optim, old_delta, graph,
                      epoch, nbatch>>
       /\ UNCHANGED <<layerVars, observerVars, opVars, rbfVars, attrs>>

\* optimizer(params) in the batch loop of fit
FitOptimizer ==
    /\ pc = "optimizer"
    /\ OptimizerEnter("fit", graph)
    /\ pc' = "in_optimizer"
    /\ UNCHANGED ncallback

\* a callback that calls the optimizer on Params of its choice
CallbackOptimizer ==
    /\ pc = "callbacks"
    /\ ncallback < MaxCallbacks
    /\ \E passed \in SUBSET ParamIds : OptimizerEnter("callback", passed)
    /\ ncallback' = ncallback + 1
    /\ UNCHANGED pc

\* assert isinstance(par, Param) and par.has_grad
OptAssert ==
    /\ ocall.active
    /\ ocall.stage = "assert"
    /\ ocall.queue # <<>>
    /\ LET par == Head(ocall.queue)
       IN IF has_grad[par]
          THEN /\ ocall' = [ocall EXCEPT
                     !.stage = StageAfter("assert", optim.grad_lim),
                     !.entry = [par |-> par,
                                value |-> pvalue[par],
                                grad |-> pgrad[par],
                                old |-> old_delta[par]]]
               /\ tstep' = "assert"
               /\ UNCHANGED <<training, scopes, pc>>
          ELSE LET out == Unwind(ocall.caller, training, scopes)
               IN /\ training' = out.training
                  /\ scopes' = out.scopes
                  /\ ocall' = [ocall EXCEPT !.active = FALSE]
                  /\ pc' = "raised"
                  /\ tstep' = "AssertionError"
    /\ UNCHANGED <<pvalue, pgrad, has_grad, optim, old_delta, graph,
                   epoch, nbatch, ncallback>>
    /\ UNCHANGED <<layerVars, observerVars, opVars, rbfVars, attrs>>

\* if self.grad_lim: self.shrink_grad(par)
OptShrinkGrad ==
    /\ ocall.active
    /\ ocall.stage = "shrink_grad"
    /\ LET par == Head(ocall.queue)
       IN pgrad' = [pgrad EXCEPT
                       ![par] = shrink_grad(pgrad[par], optim.grad_lim)]
    /\ ocall' = [ocall EXCEPT
                    !.stage = StageAfter("shrink_grad", optim.grad_lim)]
    /\ tstep' = "shrink_grad"
    /\ UNCHANGED <<pvalue, has_grad, training, scopes, optim, old_delta,
                   pc, graph, epoch, nbatch, ncallback>>
    /\ UNCHANGED <<layerVars, observerVars, opVars, rbfVars, attrs>>

\* self.update(par)
OptUpdate ==
    /\ ocall.active
    /\ ocall.stage = "update"
    /\ LET par == Head(ocall.queue)
           new == SGD_update(pvalue[par], pgrad[par], old_delta[par],
                             optim.mom, optim.lr)
       IN /\ pvalue' = [pvalue EXCEPT ![par] = new.value]
          /\ old_delta' = [old_delta EXCEPT ![par] = new.old_delta]
    /\ ocall' = [ocall EXCEPT
                    !.stage = StageAfter("update", optim.grad_lim)]
    /\ tstep' = "update"
    /\ UNCHANGED <<pgrad, has_grad, training, scopes, optim, pc, graph,
                   epoch, nbatch, ncallback>>
    /\ UNCHANGED <<layerVars, observerVars, opVars, rbfVars, attrs>>

\* self.regularize(par)
OptRegularize ==
    /\ ocall.active
    /\ ocall.stage = "regularize"
    /\ LET par == Head(ocall.queue)
       IN pvalue' = [pvalue EXCEPT
                        ![par] = regularize(pvalue[par], optim.reg,
                                            optim.lr, optim.lamb)]
    /\ ocall' = [ocall EXCEPT
                    !.stage = StageAfter("regularize", optim.grad_lim)]
    /\ tstep' = "regularize"
    /\ UNCHANGED <<pgrad, has_grad, training, scopes, optim, old_delta,
                   pc, graph, epoch, nbatch, ncallback>>
    /\ UNCHANGED <<layerVars, observerVars, opVars, rbfVars, attrs>>

\* par.del_grad(), and on to the next Param
OptDelGrad ==
    /\ ocall.active
    /\ ocall.stage = "del_grad"
    /\ LET par == Head(ocall.queue)
           new == del_grad(par)
       IN /\ pgrad' = [pgrad EXCEPT ![par] = new.grad]
          /\ has_grad' = [has_grad EXCEPT ![par] = new.has_grad]
    /\ ocall' = [ocall EXCEPT
                    !.stage = StageAfter("del_grad", optim.grad_lim),
                    !.queue = Tail(ocall.queue)]
    /\ tstep' = "del_grad"
    /\ UNCHANGED <<pvalue, training, scopes, optim, old_delta, pc, graph,
                   epoch, nbatch, ncallback>>
    /\ UNCHANGED <<layerVars, observerVars, opVars, rbfVars, attrs>>

\* The loop of Optimizer.__call__ is over: the with-block ends, the call
\* returns; in the batch loop fit goes on to the next batch.
OptReturn ==
    /\ ocall.active
    /\ ocall.stage = "assert"
    /\ ocall.queue = <<>>
    /\ LET out == ExitScope(training, scopes)
       IN /\ training' = out.training
          /\ scopes' = out.scopes
    /\ ocall' = [ocall EXCEPT !.active = FALSE]
    /\ IF ocall.caller = "fit"
       THEN /\ nbatch' = nbatch + 1
            /\ pc' = IF nbatch + 1 < optim.batches THEN "forward" ELSE "val"
       ELSE UNCHANGED <<nbatch, pc>>
    /\ tstep' = "optimizer_return"
    /\ UNCHANGED <<pvalue, pgrad, has_grad, optim, old_delta, graph,
                   epoch, ncallback>>
    /\ UNCHANGED <<layerVars, observerVars, opVars, rbfVars, attrs>>

\* if val_data: with Param.not_training(): y_val = self(x_val)
FitValidate ==
    /\ pc = "val"
    /\ IF optim.val_data
       THEN LET in == EnterScope(training, scopes)
            IN /\ training' = in.training
               /\ scopes' = in.scopes
               /\ pc' = "val_forward"
       ELSE /\ pc' = "callbacks_enter"
            /\ UNCHANGED <<training, scopes>>
    /\ tstep' = "val"
    /\ UNCHANGED <<pvalue, pgrad, has_grad, optim, old_delta, graph,
                   ocall, epoch, nbatch, ncallback>>
    /\ UNCHANGED <<layerVars, observerVars, opVars, rbfVars, attrs>>

\* y_val = self(x_val), and the with-block ends
FitValForward ==
    /\ pc = "val_forward"
    /\ \E used \in GraphChoices : graph' = Recorded(training, used)
    /\ LET out == ExitScope(training, scopes)
       IN /\ training' = out.training
          /\ scopes' = out.scopes
    /\ pc' = "callbacks_enter"
    /\ tstep' = "forward"
    /\ UNCHANGED <<pvalue, pgrad, has_grad, optim, old_delta, ocall,
                   epoch, nbatch, ncallback>>
    /\ UNCHANGED <<layerVars, observerVars, opVars, rbfVars, attrs>>

\* with Param.not_training(): for callback in callbacks: ...
FitCallbacksEnter ==
    /\ pc = "callbacks_enter"
    /\ LET in == EnterScope(training, scopes)
       IN /\ training' = in.training
          /\ scopes' = in.scopes
    /\ pc' = "callbacks"
    /\ ncallback' = 0
    /\ tstep' = "callbacks"
    /\ UNCHANGED <<pvalue, pgrad, has_grad, optim, old_delta, graph,
                   ocall, epoch, nbatch>>
    /\ UNCHANGED <<layerVars, observerVars, opVars, rbfVars, attrs>>

\* a callback that evaluates the model and calls backward on the result
CallbackEvaluate ==
    /\ pc = "callbacks"
    /\ ~ocall.active
    /\ ncallback < MaxCallbacks
    /\ \E used \in GraphChoices, d \in GradVals :
          LET rec == Recorded(training, used)
          IN /\ graph' = rec
             /\ pgrad' = [p \in ParamIds |-> Accumulated(pgrad, p, rec, d)]
             /\ has_grad' = [p \in ParamIds |-> has_grad[p] \/ p \in rec]
    /\ ncallback' = ncallback + 1
    /\ tstep' = "backward"
    /\ UNCHANGED <<pvalue, training, scopes, optim, old_delta, pc, ocall,
                   epoch, nbatch>>
    /\ UNCHANGED <<layerVars, observerVars, opVars, rbfVars, attrs>>

\* The callbacks are done: the with-block ends and the epoch is over.
FitCallbacksExit ==
    /\ pc = "callbacks"
    /\ ~ocall.active
    /\ LET out == ExitScope(training, scopes)
       IN /\ training' = out.training
          /\ scopes' = out.scopes
    /\ epoch' = epoch + 1
    /\ nbatch' = 0
    /\ pc' = IF epoch + 1 < MaxEpochs THEN "forward" ELSE "done"
    /\ tstep' = "epoch"
    /\ UNCHANGED <<pvalue, pgrad, has_grad, optim, old_delta, graph,
                   ocall, ncallback>>
    /\ UNCHANGED <<layerVars, observerVars, opVars, rbfVars, attrs>>

NextTrain ==
    \/ FitForward
    \/ FitBackward
    \/ FitOptimizer
    \/ CallbackOptimizer
    \/ OptAssert
    \/ OptShrinkGrad
    \/ OptUpdate
    \/ OptRegularize
    \/ OptDelGrad
    \/ OptReturn
    \/ FitValidate
    \/ FitValForward
    \/ FitCallbacksEnter
    \/ CallbackEvaluate
    \/ FitCallbacksExit

SpecTrain == InitTrain /\ [][NextTrain]_vars

\* ------------------------------------------------ partial application
\* class F(Operation): partial = 1; apply(self, x, a, k=1).  An Operation
\* object is the positional and the keyword arguments bound so far; the
\* heap `ops` holds the objects made, the first being F itself.
MaxOps == 3

F_params == <<"x", "a", "k">>
F_partial == 1
F_defaults == [k |-> 1]
Tensors == {100}
Scalars == {3, 13}
Keywords == {<<>>, [k |-> 2], [a |-> 13], [k |-> 1]}

\* F.apply
F_apply(x, a, k) == k * (x + a)

\* dict.update
Merged(kw, more) ==
    [n \in DOMAIN kw \cup DOMAIN more |->
        IF n \in DOMAIN more THEN more[n] ELSE kw[n]]

\* Python's binding of a call's arguments to F.apply's parameters, and the
\* value apply returns; TypeError when a parameter is given twice, is
\* missing, or there are too many positionals.
Applied(pos, kw) ==
    LET given(j) == (IF j <= Len(pos) THEN 1 ELSE 0)
                      + (IF F_params[j] \in DOMAIN kw THEN 1 ELSE 0)
        arg(j) == IF j <= Len(pos) THEN pos[j]
                  ELSE IF F_params[j] \in DOMAIN kw THEN kw[F_params[j]]
                  ELSE F_defaults[F_params[j]]
        ok == /\ Len(pos) <= Len(F_params)
              /\ DOMAIN kw \subseteq {F_params[j] : j \in 1..Len(F_params)}
              /\ \A j \in 1..Len(F_params) :
                    /\ given(j) <= 1
                    /\ given(j) = 0 => F_params[j] \in DOMAIN F_defaults
    IN IF ok THEN PyInt(F_apply(arg(1), arg(2), arg(3)))
       ELSE Raised("TypeError")

\* A binding stage that stores the arguments in the Operation it is called
\* on and hands that same Operation back.
Bind_in_place(heap, i, pos, kw) ==
    LET op == [pos |-> heap[i].pos \o pos, kw |-> Merged(heap[i].kw, kw)]
    IN Append([heap EXCEPT ![i] = op], op)

\* op(*pos, **kw) without its tensor arguments: a new Operation closing
\* over the arguments bound so far and the ones given now.
Bind(heap, i, pos, kw) ==
    Append(heap, [pos |-> heap[i].pos \o pos, kw |-> Merged(heap[i].kw, kw)])

\* op(x, *pos, **kw) with its tensor argument: apply to the tensor, then
\* the bound arguments, then the ones given now.
Apply(op, x, pos, kw) == Applied(<<x>> \o op.pos \o pos, Merged(op.kw, kw))

\* The parameters a stage may still bind on `op`: each argument is
\* supplied once over the stages.
Unbound(op, pos, kw) ==
    /\ F_partial + Len(op.pos) + Len(pos) <= Len(F_params)
    /\ DOMAIN kw \cap DOMAIN op.kw = {}
    /\ \A j \in 1..(F_partial + Len(op.pos) + Len(pos)) :
          F_params[j] \notin DOMAIN kw \cup DOMAIN op.kw

InitOp ==
    /\ ops = << [pos |-> <<>>, kw |-> <<>>] >>
    /\ made = << <<>> >>
    /\ result = [kind |-> "none"]
    /\ NoLayer
    /\ NoTraining

\* f = F(3, k=1);  f2 = F(3);  f3 = f2(k=2)
BindStage(i, pos, kw) ==
    /\ Len(ops) < MaxOps
    /\ pos # <<>> \/ kw # <<>>
    /\ Unbound(ops[i], pos, kw)
    /\ ops' = Bind(ops, i, pos, kw)
    /\ made' = Append(made, Append(made[i], [pos |-> pos, kw |-> kw]))
    /\ UNCHANGED result
    /\ UNCHANGED <<layerVars, observerVars, trainVars, rbfVars, attrs>>

\* f(Param(100));  F(Param(100), 13);  f3(Param(100))
ApplyOp(i, x, pos, kw) ==
    /\ Unbound(ops[i], pos, kw)
    /\ result' = [kind |-> "applied", op |-> i, x |-> x,
                  stages |-> Append(made[i], [pos |-> pos, kw |-> kw]),
                  value |-> Apply(ops[i], x, pos, kw)]
    /\ UNCHANGED <<ops, made>>
    /\ UNCHANGED <<layerVars, observerVars, trainVars, rbfVars, attrs>>

NextOp ==
    \/ \E i \in DOMAIN ops, pos \in {<<>>} \cup {<<v>> : v \in Scalars},
          kw \in Keywords : BindStage(i, pos, kw)
    \/ \E i \in DOMAIN ops, x \in Tensors,
          pos \in {<<>>} \cup {<<v>> : v \in Scalars},
          kw \in Keywords : ApplyOp(i, x, pos, kw)

SpecOp == InitOp /\ [][NextOp]_vars

\* ------------------------------------------------------------ RBF
\* Centers and inputs have integer coordinates and step_size is an integer,
\* so the L1 distances are integers.  With sigma = 0.1 the activation
\* exp(-d^2 / 0.02) of a distance d is 1 for d = 0, a different positive
\* number below 1e-21 for each of d = 1, 2, 3, and underflows to 0.0 from
\* d = 4 on; the cached output holds min(d, Underflow) in its place.  Among
\* these activations, two lie within nb_radius = 0.05 of each other exactly
\* when they are equal or both belong to a distance of at least 1.
Underflow == 4

RBFSizes == {3}
RBFDims == {2}
RBFSeeds == {1}
StepSizes == {1, 2}
Points == {<<-1, 1>>, <<1, 2>>, <<7, 7>>}

RowOf(a, i) == SubSeq(a.data, (i - 1) * a.shape[2] + 1, i * a.shape[2])

\* RBF.distance: np.sum(np.abs(x - y), axis=-1) of two rows
RECURSIVE distance(_, _)
distance(x, y) ==
    IF x = <<>> THEN 0
    ELSE Abs(Head(x) - Head(y)) + distance(Tail(x), Tail(y))

\* RBF.gaussian_rbf of a row and a center
gaussian_rbf(x, mu) ==
    LET d == distance(x, mu)
    IN IF d >= Underflow THEN Underflow ELSE d

\* abs(a - b) <= self.nb_radius on two activations
WithinRadius(a, b) == a = b \/ (a >= 1 /\ b >= 1)

\* RBF.forward(input): the activation of every center for every row; an
\* AttributeError while self.centers is not set.
RBF_forward(c, inp) ==
    IF c.value.kind = "unset" THEN Raised("AttributeError")
    ELSE LET n == inp.shape[1]
             sz == c.value.shape[1]
         IN Arr(<<n, sz>>,
                [t \in 1..(n * sz) |->
                    gaussian_rbf(RowOf(inp, ((t - 1) \div sz) + 1),
                                 RowOf(c.value, ((t - 1) % sz) + 1))])

\* np.argmax over a row: the first index holding the largest activation
argmax(row) ==
    CHOOSE j \in 1..Len(row) :
        /\ \A k \in 1..Len(row) : row[j] <= row[k]
        /\ \A k \in 1..(j - 1) : row[k] > row[j]

\* nodes_to_update for input row i
nodes_to_update(out, i, update_neighbors) ==
    LET row == RowOf(out, i)
        j == argmax(row)
    IN {j} \cup (IF update_neighbors
                 THEN {k \in 1..Len(row) : WithinRadius(row[j], row[k])}
                 ELSE {})

\* A backward that moves every center towards the input row.
moved_all(cv, x, nodes, step_size) ==
    LET w == cv.shape[2]
    IN Arr(cv.shape,
           [t \in 1..Len(cv.data) |->
               cv.data[t] + step_size * (x[((t - 1) % w) + 1] - cv.data[t])])

\* self.centers[k] += self.step_size * (self.input[i] - self.centers[k])
\* for every k in nodes
moved(cv, x, nodes, step_size) ==
    LET w == cv.shape[2]
    IN Arr(cv.shape,
           [t \in 1..Len(cv.data) |->
               IF ((t - 1) \div w) + 1 \in nodes
               THEN cv.data[t] + step_size * (x[((t - 1) % w) + 1] - cv.data[t])
               ELSE cv.data[t]])

\* the loop `for i, j in enumerate(winners)` from row i on
RECURSIVE move_centers_from(_, _, _, _, _)
move_centers_from(cv, inp, out, cfg, i) ==
    IF i > inp.shape[1] THEN cv
    ELSE move_centers_from(
             moved(cv, RowOf(inp, i),
                   nodes_to_update(out, i, cfg.update_neighbors),
                   cfg.step_size),
             inp, out, cfg, i + 1)

\* RBF.backward(error, pass_error): the centers afterwards and what is
\* returned.
RBF_backward(c, inp, out, cfg, error, pass_error) ==
    IF ~cfg.move_centers THEN [centers |-> c, ret |-> None]
    ELSE [centers |-> [c EXCEPT !.value = move_centers_from(c.value, inp, out, cfg, 1)],
          ret |-> None]

\* Layer._wrapped_forward(input) around RBF.forward
RBF_wrapped_forward(c, inp0, out0, x) ==
    LET batch == Len(x.shape) > 1
        n == IF batch THEN x.shape[1] ELSE 1
        inp == np_reshape(x, n)
        out == RBF_forward(c, inp)
    IN IF IsRaised(out) THEN [input |-> inp0, output |-> out0, ret |-> out]
       ELSE [input |-> inp, output |-> out, ret |-> IF batch THEN out ELSE Row0(out)]

\* Layer._wrapped_backward(error, pass_error=...) around RBF.backward
RBF_wrapped_backward(c, inp, out, cfg, error, pass_error) ==
    IF out.kind = "None" THEN [centers |-> c, input |-> inp, output |-> out, ret |-> None]
    ELSE LET done == RBF_backward(c, inp, out, cfg, error, pass_error)
         IN [centers |-> done.centers, input |-> None, output |-> None,
             ret |-> done.ret]

\* The inputs fed to the RBF layer: one point, or a batch of one or two.
RBFInputs ==
    {Arr(<<Len(p)>>, p) : p \in Points}
        \cup {Arr(<<1, Len(p)>>, p) : p \in Points}
        \cup {Arr(<<2, Len(p)>>, p \o q) : p \in Points, q \in Points}

\* RBF(size, move_centers=..., step_size=..., update_neighbors=...,
\* input_dim=...): RBF.__init__ stores its arguments, Layer.__init__ clears
\* the caches and calls setup when input_dim is given.
ConstructedRBF ==
    /\ cls = "RBF"
    /\ \E mc \in BOOLEAN, un \in BOOLEAN, st \in StepSizes :
          rbf = [move_centers |-> mc, update_neighbors |-> un, step_size |-> st]
    /\ size \in RBFSizes
    /\ with_bias = FALSE
    /\ input_dim \in {0} \cup RBFDims
    /\ built = FALSE
    /\ input = None
    /\ output = None
    /\ weights = NoParameter
    /\ centers \in IF input_dim = 0 THEN {NoParameter}
                   ELSE {RandomParameter(<<size, input_dim>>, sd) : sd \in RBFSeeds}
    /\ parameters = IF input_dim = 0 THEN {} ELSE {"centers"}
    /\ attrs = <<>>
    /\ call = [op |-> "init", arg |-> None, pass_error |-> FALSE,
               had_output |-> FALSE, ret |-> None, repeat |-> FALSE]
    /\ fwd = [in |-> <<>>, out |-> <<>>]
    /\ naccum = 0
    /\ sumLocal = <<>>
    /\ proper = TRUE
    /\ regular = TRUE
    /\ track = FALSE
    /\ tape = <<>>
    /\ nowed = 0
    /\ owed = <<>>

\* RBF.setup(input_dim)
RBFSetup(d, seed) ==
    /\ cls = "RBF"
    /\ centers.value.kind = "unset"
    /\ input_dim' = d
    /\ centers' = RandomParameter(<<size, d>>, seed)
    /\ parameters' = parameters \cup {"centers"}
    /\ call' = Call("setup", None, FALSE, None)
    /\ UNCHANGED <<size, with_bias, built, input, output, weights, cls, rbf, attrs,
                   fwd, naccum, sumLocal, proper, track, tape, nowed, owed, regular>>
    /\ UNCHANGED <<trainVars, opVars>>

\* layer.forward(x) on an RBF layer
RBFForward(x) ==
    LET done == RBF_wrapped_forward(centers, input, output, x)
    IN /\ cls = "RBF"
       /\ input' = done.input
       /\ output' = done.output
       /\ call' = Call("forward", None, FALSE, done.ret)
       /\ fwd' = IF IsRaised(done.ret) THEN fwd
                 ELSE [in |-> x.shape, out |-> done.ret.shape]
       /\ parameters' = IF IsRaised(done.ret) THEN parameters
                         ELSE registered(registered(parameters, "input", FALSE),
                                         "output", TRUE)
       /\ UNCHANGED <<size, with_bias, input_dim, built, weights, rbfVars,
                      attrs, naccum, sumLocal, proper, track, tape, nowed, owed, regular>>
       /\ UNCHANGED <<trainVars, opVars>>

\* layer.backward(error, pass_error=pass_error) on an RBF layer
RBFBackward(error, pass_error) ==
    LET done == RBF_wrapped_backward(centers, input, output, rbf, error, pass_error)
    IN /\ cls = "RBF"
       /\ output.kind # "None" => naccum < MaxBackward
       /\ centers' = done.centers
       /\ input' = done.input
       /\ output' = done.output
       /\ call' = Call("backward", error, pass_error, done.ret)
       /\ naccum' = IF output.kind # "None" THEN naccum + 1 ELSE naccum
       /\ parameters' = IF output.kind = "None" THEN parameters
                         ELSE registered(registered(parameters, "input", FALSE),
                                         "output", FALSE)
       /\ UNCHANGED <<size, with_bias, input_dim, built, weights, cls, rbf,
                      attrs, fwd, sumLocal, proper, track, tape, nowed, owed, regular>>
       /\ UNCHANGED <<trainVars, opVars>>

\* reading layer.centers.grad
RBFReadGrad ==
    /\ cls = "RBF"
    /\ centers.value.kind # "unset"
    /\ centers' = grad_get(centers)
    /\ call' = Call("grad", None, FALSE, grad_get(centers).grad)
    /\ UNCHANGED <<layerVars, cls, rbf, attrs, fwd, naccum, sumLocal, proper, track,
                   tape, nowed, owed, regular>>
    /\ UNCHANGED <<trainVars, opVars>>

NextRBF ==
    \/ \E d \in RBFDims, seed \in RBFSeeds : RBFSetup(d, seed)
    \/ \E x \in RBFInputs : RBFForward(x)
    \/ \E pass_error \in BOOLEAN : RBFBackward(ErrorSample(0, <<size>>), pass_error)
    \/ RBFReadGrad

InitRBF == ConstructedRBF /\ NoTraining /\ NoOps
SpecRBF == InitRBF /\ [][NextRBF]_vars

\* A layer of either class: Dense(1) with its bias, or an RBF layer that
\* moves the winner alone.
InitLayers ==
    \/ Init /\ size = 1 /\ with_bias
    \/ InitRBF /\ ~rbf.update_neighbors /\ rbf.step_size = 2
NextLayers == Next \/ NextRBF
SpecLayers == InitLayers /\ [][NextLayers]_vars

\* ------------------------------------------------ attribute assignment
\* A Layer whose attributes are assigned from outside.  Parameter objects
\* are told apart by identity; `parameters` is the dict held by the
\* attribute of that name.
AttrNames == {"weights", "centers", "output"}
ParameterObjects == {"P1", "P2"}
OtherValues == {"None", "int"}
EmptyDict == <<>>

\* Layer.__setattr__(name, value): the dict and the attributes afterwards.
setattr(dict, at, name, value) ==
    LET kept == IF value \in ParameterObjects
                THEN [n \in DOMAIN dict \cup {name} |->
                         IF n = name THEN value ELSE dict[n]]
                ELSE IF name \in DOMAIN dict
                THEN [n \in DOMAIN dict \ {name} |-> dict[n]]
                ELSE dict
    IN IF name = "parameters"
       THEN [parameters |-> value, attrs |-> at]
       ELSE [parameters |-> kept, attrs |-> [at EXCEPT ![name] = value]]

\* Layer.__init__ has run: the dict exists and holds no Parameter.
InitAttr ==
    /\ cls = "Layer"
    /\ attrs = [n \in AttrNames |-> "None"]
    /\ parameters = EmptyDict
    /\ size = 0
    /\ with_bias = FALSE
    /\ input_dim = 0
    /\ built = FALSE
    /\ input = None
    /\ output = None
    /\ weights = NoParameter
    /\ centers = NoParameter
    /\ rbf = <<>>
    /\ call = <<>>
    /\ fwd = <<>>
    /\ naccum = 0
    /\ sumLocal = <<>>
    /\ proper = TRUE
    /\ regular = TRUE
    /\ track = FALSE
    /\ tape = <<>>
    /\ nowed = 0
    /\ owed = <<>>
    /\ NoTraining
    /\ NoOps

\* layer.<name> = value
SetAttr(name, value) ==
    LET done == setattr(parameters, attrs, name, value)
    IN /\ cls = "Layer"
       /\ parameters' = done.parameters
       /\ attrs' = done.attrs
       /\ UNCHANGED <<size, with_bias, input_dim, built, input, output, weights,
                      rbfVars, observerVars, trainVars, opVars>>

\* layer.parameters = {}
SetParameters == SetAttr("parameters", EmptyDict)

NextAttr ==
    \/ \E name \in AttrNames, value \in ParameterObjects \cup OtherValues :
          SetAttr(name, value)
    \/ SetParameters

SpecAttr == InitAttr /\ [][NextAttr]_vars

\* ------------------------------------------------------------ claims
HasWeights == weights.value.kind = "ndarray"

\* C1: when every forward invocation of a pass has been matched by a backward
\* call carrying its gradient, weights.grad is the sum of the local gradients
\* of all those invocations.
C1_FanOutLaw ==
    (track /\ regular /\ nowed > 0 /\ tape = <<>>)
        => (IsArr(weights.grad) /\ weights.grad.data = owed)

\* C2: a backward call made while no output is cached returns None and leaves
\* the weights Parameter (value, gradient, flag) and the caches as they were,
\* whatever the gradient argument and pass_error are.
C2_BackwardWithoutForward ==
    [][(call'.op = "backward" /\ output.kind = "None")
         => (call'.ret = None /\ weights' = weights
             /\ input' = input /\ output' = output)]_vars

C2_Witness ==
    /\ call.op = "backward"
    /\ ~call.had_output
    /\ call.pass_error
    /\ weights.dirty = "True"

C6_BuildOnFirstForward ==
    [][(call'.op = "forward" /\ ~HasWeights)
         => (built' /\ weights'.value.kind = "ndarray"
             /\ "weights" \in parameters' /\ IsArr(call'.ret))]_vars

\* C7: forward maps [d] to [size] and [n, d] to [n, size]; a backward with
\* pass_error, given a gradient of the shape forward returned, returns an
\* array of the shape forward was given.
C7_ShapeSymmetry ==
    /\ (call.op = "forward" /\ IsArr(call.ret))
         => call.ret.shape = (IF Len(fwd.in) = 1 THEN <<size>> ELSE <<fwd.in[1], size>>)
    /\ (call.op = "backward" /\ call.had_output /\ call.pass_error
          /\ call.arg.shape = fwd.out)
         => (IsArr(call.ret) /\ call.ret.shape = fwd.in)

\* The entries of a gradient slot, with 0 for a slot that is unset or zero.
GradData(p, len) ==
    IF IsArr(p.grad) THEN p.grad.data ELSE [k \in 1..len |-> 0]

\* g . W^T with the bias row of the weights left out, row-major.
RECURSIVE UpstreamSum(_, _, _, _, _)
UpstreamSum(g, w, b, i, j) ==
    IF j = 0 THEN 0
    ELSE g.data[(b - 1) * g.shape[2] + j] * w.data[i * w.shape[2] + j]
         + UpstreamSum(g, w, b, i, j - 1)

Upstream(g, w) ==
    [k \in 1..(g.shape[1] * (w.shape[1] - 1)) |->
       UpstreamSum(g, w, ((k - 1) \div (w.shape[1] - 1)) + 1,
                   ((k - 1) % (w.shape[1] - 1)) + 1, g.shape[2])]

\* C8: with a bias, forward returns bias + x.W, and a backward given a
\* gradient g of the shape forward returned adds to weights.grad the outer
\* product of the input (a constant 1 in front for the bias row) with g,
\* summed over the batch, and returns g.W^T without the bias row.
C8_DenseValues ==
    [][/\ (call'.op = "forward" /\ with_bias /\ IsArr(call'.ret))
            => call'.ret.data = np_add(np_matmul(input', RowsFrom1(weights.value)),
                                       Row0(weights.value)).data
       /\ (call'.op = "backward" /\ with_bias /\ output.kind # "None"
             /\ call'.arg.shape = fwd.out)
            => /\ IsArr(weights'.grad)
               /\ weights'.grad.data =
                    SeqAdd(GradData(weights, Len(weights.value.data)),
                           OuterGrad(input, Batched(call'.arg), TRUE))
               /\ call'.pass_error
                    => call'.ret.data = Upstream(Batched(call'.arg), weights.value)]_vars

\* C9: zero_grad leaves the gradient 0 and the flag false from any state of
\* the Parameter, and a second zero_grad changes nothing.
C9_ZeroGradIdempotent ==
    /\ HasWeights =>
         LET z == zero_grad(weights)
         IN /\ z.grad = PyInt(0)
            /\ z.dirty = "False"
            /\ need_update(z).kind = "False"
            /\ zero_grad(z) = z
    /\ call.op = "zero_grad" => (weights.grad = PyInt(0) /\ weights.dirty = "False")

C9_Witness ==
    /\ call.op = "zero_grad"
    /\ call.repeat
    /\ weights.grad = PyInt(0)
    /\ weights.dirty = "False"

\* C4: in Optimizer.__call__ each Param is shrunk (when grad_lim is set),
\* then updated from the gradient it still holds, then regularized on the
\* updated value, then cleared; when the call returns every Param passed
\* has no gradient, and every batch of fit starts with all gradients
\* cleared.
C4_OptimizerClears ==
    LET e == ocall.entry
        g1 == IF optim.grad_lim # 0
              THEN shrink_grad(e.grad, optim.grad_lim) ELSE e.grad
        v1 == SGD_update(e.value, g1, e.old, optim.mom, optim.lr).value
        v2 == regularize(v1, optim.reg, optim.lr, optim.lamb)
    IN /\ tstep = "optimizer_return" =>
              \A p \in ocall.passed : ~has_grad[p] /\ pgrad[p] = 0
       /\ tstep = "shrink_grad" =>
              has_grad[e.par] /\ pgrad[e.par] = g1 /\ pvalue[e.par] = e.value
       /\ tstep = "update" =>
              has_grad[e.par] /\ pgrad[e.par] = g1 /\ pvalue[e.par] = v1
       /\ tstep = "regularize" =>
              has_grad[e.par] /\ pgrad[e.par] = g1 /\ pvalue[e.par] = v2
       /\ tstep = "del_grad" =>
              ~has_grad[e.par] /\ pgrad[e.par] = 0 /\ pvalue[e.par] = v2
       /\ pc = "forward" => \A p \in ParamIds : ~has_grad[p] /\ pgrad[p] = 0

\* C4 witness: an optimizer with regularization and a gradient limit has
\* returned from a call on both Params, and fit starts its second batch.
C4_Witness ==
    /\ tstep = "optimizer_return"
    /\ ocall.caller = "fit"
    /\ ocall.passed = ParamIds
    /\ optim.reg = "l2"
    /\ optim.grad_lim # 0
    /\ pc = "forward"
    /\ nbatch = 1
    /\ \E p \in ParamIds : pvalue[p] \notin ParamValues

\* The number of not_training with-blocks execution is inside.
ScopeDepth ==
    (IF pc # "none" /\ ocall.active THEN 1 ELSE 0)
        + (IF pc \in {"val_forward", "callbacks"} THEN 1 ELSE 0)

\* C5: the training flag is off exactly while execution is inside a
\* not_training scope; an evaluation or backward pass made while it is off
\* changes no Param's gradient; and every exit, normal or by the
\* optimizer's failed assertion, nested or not, puts back the flag value
\* held before the entry it leaves.
C5_TrainingScope ==
    /\ [](pc # "none" =>
              /\ Len(scopes) = ScopeDepth
              /\ training <=> (ScopeDepth = 0))
    /\ [][/\ (tstep' \in {"forward", "backward"} /\ ~training) =>
                 (pgrad' = pgrad /\ has_grad' = has_grad)
          /\ Len(scopes') < Len(scopes) =>
                 /\ training' = scopes[Len(scopes') + 1]
                 /\ scopes' = SubSeq(scopes, 1, Len(scopes'))]_vars

\* C5 witness: the optimizer, called from a fit callback, has failed its
\* assertion; both scopes are left and the flag is on again.
C5_Witness ==
    /\ pc = "raised"
    /\ tstep = "AssertionError"
    /\ ocall.caller = "callback"
    /\ training
    /\ scopes = <<>>

\* All the positional arguments of a list of stages, in order.
RECURSIVE AllPos(_)
AllPos(stages) ==
    IF stages = <<>> THEN <<>>
    ELSE Head(stages).pos \o AllPos(Tail(stages))

\* All the keyword arguments of a list of stages.
RECURSIVE AllKw(_)
AllKw(stages) ==
    IF stages = <<>> THEN <<>>
    ELSE Merged(Head(stages).kw, AllKw(Tail(stages)))

\* C10: applying an Operation whose arguments were supplied over several
\* stages gives what F gives when applied to all of them at once (103, 113
\* and 206 in the repository's test), and every Operation made by a binding
\* stage still holds exactly the bindings of its own stages, whatever was
\* bound on it later.
C10_PartialApplication ==
    /\ pc = "none" /\ ops # <<>> =>
          \A i \in DOMAIN ops :
              /\ ops[i].pos = AllPos(made[i])
              /\ ops[i].kw = AllKw(made[i])
    /\ pc = "none" /\ ops # <<>> /\ result.kind = "applied" =>
          /\ result.value =
                 Applied(<<result.x>> \o AllPos(result.stages),
                         AllKw(result.stages))
          /\ result.stages = <<[pos |-> <<3>>, kw |-> [k |-> 1]],
                               [pos |-> <<>>, kw |-> <<>>]>>
                 => result.value = PyInt(103)
          /\ result.stages = <<[pos |-> <<13>>, kw |-> <<>>]>>
                 => result.value = PyInt(113)
          /\ result.stages = <<[pos |-> <<3>>, kw |-> <<>>],
                               [pos |-> <<>>, kw |-> [k |-> 2]],
                               [pos |-> <<>>, kw |-> <<>>]>>
                 => result.value = PyInt(206)

\* C10 witness: f3 = f2(k=2) was made from f2 = F(3), f3(Param(100)) gave
\* 206, and f2 still applies with k = 1: the heap holds F(3) untouched.
C10_Witness ==
    /\ ops # <<>>
    /\ result.kind = "applied"
    /\ Len(result.stages) = 3
    /\ result.value = PyInt(206)
    /\ \E i, j \in DOMAIN ops :
          /\ made[j] = Append(made[i], [pos |-> <<>>, kw |-> [k |-> 2]])
          /\ result.op = j
          /\ ops[i] = [pos |-> <<3>>, kw |-> <<>>]

\* The rows of the input whose nodes_to_update hold center k, in order.
RowsMoving(k) ==
    {i \in 1..input.shape[1] : k \in nodes_to_update(output, i, rbf.update_neighbors)}

\* Center k after it moved towards each of the input rows from i on that
\* selected it, by step_size times its difference to the row.
RECURSIVE Expected(_, _, _)
Expected(row, k, i) ==
    IF i > input.shape[1] THEN row
    ELSE IF i \in RowsMoving(k)
    THEN Expected([t \in 1..Len(row) |->
                      row[t] + rbf.step_size * (RowOf(input, i)[t] - row[t])],
                  k, i + 1)
    ELSE Expected(row, k, i + 1)

\* C11: a backward call on an RBF layer returns None and leaves the gradient
\* and the dirty flag of centers as they were, whatever pass_error is; with
\* move_centers off, or without a cached forward, the centers keep their
\* values; with it on, a center no input row selected (as winner or, with
\* update_neighbors, within the band of the winner) keeps its value, and a
\* selected one moves by step_size times its difference to each row that
\* selected it.
C11_RBFBackward ==
    [][(cls = "RBF" /\ call'.op = "backward") =>
          /\ call'.ret = None
          /\ centers'.grad = centers.grad
          /\ centers'.dirty = centers.dirty
          /\ "centers" \in parameters' <=> "centers" \in parameters
          /\ (~rbf.move_centers \/ output.kind = "None") => centers' = centers
          /\ (rbf.move_centers /\ output.kind # "None") =>
                /\ centers'.value.shape = centers.value.shape
                /\ \A k \in 1..size :
                      /\ RowOf(centers'.value, k)
                             = Expected(RowOf(centers.value, k), k, 1)
                      /\ RowsMoving(k) = {} =>
                             RowOf(centers'.value, k) = RowOf(centers.value, k)]_vars

\* C11 witness: an RBF layer with move_centers whose centers.grad was read
\* has run backward after a forward: one center moved, another did not, and
\* the gradient slot still holds 0, not dirty.
C11_Witness ==
    /\ cls = "RBF"
    /\ rbf.move_centers
    /\ call.op = "backward"
    /\ call.had_output
    /\ call.ret = None
    /\ centers.grad = PyInt(0)
    /\ centers.dirty = "False"
    /\ \E k \in 1..size :
          RowOf(centers.value, k) # RowOf(RandomParameter(<<size, input_dim>>, 1).value, k)
    /\ \E k \in 1..size :
          RowOf(centers.value, k) = RowOf(RandomParameter(<<size, input_dim>>, 1).value, k)

\* C12: a backward call that does not raise leaves both caches None, on a
\* Dense layer and on an RBF layer, whatever pass_error and move_centers
\* are; and a backward call made while the caches are None (a second one
\* after a single forward) returns None and changes neither the weights,
\* their gradient, nor the centers.
C12_BackwardClearsCaches ==
    [][(cls \in {"Dense", "RBF"} /\ call'.op = "backward") =>
          /\ ~IsRaised(call'.ret) => (input' = None /\ output' = None)
          /\ output = None =>
                /\ call'.ret = None
                /\ weights' = weights
                /\ centers' = centers
                /\ naccum' = naccum]_vars

\* C12 witness: on a Dense layer, after one forward and one accumulating
\* backward, a second backward with pass_error=False found the caches
\* cleared and accumulated nothing.
C12_Witness ==
    /\ cls = "Dense"
    /\ call.op = "backward"
    /\ ~call.had_output
    /\ ~call.pass_error
    /\ call.ret = None
    /\ naccum = 1
    /\ weights.dirty = "True"
    /\ input = None
    /\ output = None

\* C13: after any sequence of attribute assignments, layer.parameters holds
\* exactly the pairs (name, value) whose attribute currently holds a
\* Parameter.
C13_ParametersMap ==
    cls = "Layer" =>
        parameters = [n \in {m \in AttrNames : attrs[m] \in ParameterObjects} |->
                         attrs[n]]

====
